---- MODULE Spec2Model ----
(***************************************************************************)
(* Nik-Lang: the built-in functions (src/modules/builtin_core.rs) and the  *)
(* two drivers (src/cli/run_file.rs, src/cli/repl.rs).                     *)
(*                                                                         *)
(* A String is a sequence of bytes (Rust's String is a UTF-8 byte vector), *)
(* a byte is a number in 0..255.  An Integer is an i64 kept as four 16-bit *)
(* limbs, least significant first, in two's complement.                    *)
(***************************************************************************)
EXTENDS Integers, Sequences, FiniteSets, TLC

(***************************************************************************)
(* Bounds of the model.                                                    *)
(***************************************************************************)
MaxStrLen == 2      \* longest String argument
MaxArgs == 2        \* longest argument list
MaxElems == 2       \* most elements of an Array, Tuple or HashMap
MaxStdinLen == 3    \* most bytes waiting in the input stream
MaxEscLen == 4      \* longest text handed to unescape_string on its own
MaxLines == 3       \* most lines the REPL reads in one session

(***************************************************************************)
(* Bytes the source names.                                                 *)
(***************************************************************************)
BSLASH == 92        \* '\\'
DQUOTE == 34        \* '"'
SQUOTE == 39        \* '\''
NL == 10            \* '\n'
TAB == 9            \* '\t'
CR == 13            \* '\r'
SPACE == 32         \* ' '

Limb == 65536       \* 2^16
HalfLimb == 32768   \* 2^15

SeqsUpTo(S, n) == UNION {[1..k -> S] : k \in 0..n}

(***************************************************************************)
(* i64 arithmetic on limbs.                                                *)
(***************************************************************************)
I64Zero == <<0, 0, 0, 0>>
I64Max == <<65535, 65535, 65535, 32767>>
I64Min == <<0, 0, 0, 32768>>

\* m * 10 + d on an unsigned 64-bit magnitude; carry # 0 when it leaves 64 bits
MulAdd10(m, d) ==
    LET t1 == m[1] * 10 + d
        t2 == m[2] * 10 + t1 \div Limb
        t3 == m[3] * 10 + t2 \div Limb
        t4 == m[4] * 10 + t3 \div Limb
    IN  [val |-> <<t1 % Limb, t2 % Limb, t3 % Limb, t4 % Limb>>,
         carry |-> t4 \div Limb]

\* quotient and remainder of an unsigned 64-bit magnitude by 10
DivMod10(m) ==
    LET t4 == m[4]
        t3 == (t4 % 10) * Limb + m[3]
        t2 == (t3 % 10) * Limb + m[2]
        t1 == (t2 % 10) * Limb + m[1]
    IN  [quot |-> <<t1 \div 10, t2 \div 10, t3 \div 10, t4 \div 10>>,
         rem |-> t1 % 10]

\* m + 1 on 64 bits, wrapping
Incr(m) ==
    LET t1 == m[1] + 1
        t2 == m[2] + t1 \div Limb
        t3 == m[3] + t2 \div Limb
        t4 == m[4] + t3 \div Limb
    IN  <<t1 % Limb, t2 % Limb, t3 % Limb, t4 % Limb>>

\* two's complement negation on 64 bits
Negate(m) == Incr(<<65535 - m[1], 65535 - m[2], 65535 - m[3], 65535 - m[4]>>)

IsNegative(i) == i[4] >= HalfLimb

\* |i| as an unsigned 64-bit magnitude (2^63 for i64::MIN)
Magnitude(i) == IF IsNegative(i) THEN Negate(i) ELSE i

\* usize -> i64 for the lengths the model reaches
I64FromNat(n) == <<n % Limb, (n \div Limb) % Limb, 0, 0>>

\* the decimal digits of an unsigned magnitude, most significant first
RECURSIVE DecDigits(_)
DecDigits(m) ==
    IF m = I64Zero THEN <<>>
    ELSE LET dm == DivMod10(m) IN Append(DecDigits(dm.quot), dm.rem)

\* an unsigned magnitude from decimal digits; over is TRUE beyond 64 bits
RECURSIVE FromDigits(_)
FromDigits(ds) ==
    IF ds = <<>> THEN [val |-> I64Zero, over |-> FALSE]
    ELSE LET n == Len(ds)
             pre == FromDigits(SubSeq(ds, 1, n - 1))
             ma == MulAdd10(pre.val, ds[n])
         IN  [val |-> ma.val, over |-> pre.over \/ ma.carry # 0]

IsDigit(b) == b \in 48..57
DigitsOf(s) == [k \in 1..Len(s) |-> s[k] - 48]
BytesOf(ds) == [k \in 1..Len(ds) |-> ds[k] + 48]

\* i64::to_string
I64ToString(i) ==
    LET ds == DecDigits(Magnitude(i))
        body == IF ds = <<>> THEN <<48>> ELSE BytesOf(ds)
    IN  IF IsNegative(i) THEN <<45>> \o body ELSE body

\* str::parse::<i64>: an optional sign, then one or more decimal digits,
\* within the range of i64
ParseI64(s) ==
    LET signed == s # <<>> /\ s[1] \in {43, 45}
        neg == s # <<>> /\ s[1] = 45
        body == IF signed THEN Tail(s) ELSE s
        mag == FromDigits(DigitsOf(body))
    IN  IF body = <<>> \/ \E k \in 1..Len(body) : ~IsDigit(body[k])
        THEN [ok |-> FALSE]
        ELSE IF mag.over THEN [ok |-> FALSE]
        ELSE IF neg
             THEN IF mag.val[4] > HalfLimb
                     \/ (mag.val[4] = HalfLimb /\ mag.val # I64Min)
                  THEN [ok |-> FALSE]
                  ELSE [ok |-> TRUE, val |-> Negate(mag.val)]
             ELSE IF mag.val[4] >= HalfLimb
                  THEN [ok |-> FALSE]
                  ELSE [ok |-> TRUE, val |-> mag.val]

\* `i as i32`: the low 32 bits, as two limbs
TruncI32(i) == <<i[1], i[2]>>

\* the i64 that has the value of an i32
SignExtend(c) ==
    IF c[2] >= HalfLimb THEN <<c[1], c[2], 65535, 65535>>
    ELSE <<c[1], c[2], 0, 0>>

(***************************************************************************)
(* f64.  A float is kept as the decimal numeral that names it: cls is      *)
(* "fin", "inf" or "nan", neg the sign bit, ip the digits of the integer   *)
(* part without leading zeros and fr the digits of the fraction without    *)
(* trailing zeros.  For numerals of at most 15 significant digits and for  *)
(* integers that are exactly representable, distinct numerals are distinct *)
(* floats and the numeral is what Display prints.                          *)
(***************************************************************************)
F64(cls, neg, ip, fr) == [cls |-> cls, neg |-> neg, ip |-> ip, fr |-> fr]
F64NaN == F64("nan", FALSE, <<>>, <<>>)
F64Inf(neg) == F64("inf", neg, <<>>, <<>>)

RECURSIVE StripLeadingZeros(_)
StripLeadingZeros(ds) ==
    IF ds # <<>> /\ Head(ds) = 0 THEN StripLeadingZeros(Tail(ds)) ELSE ds

RECURSIVE StripTrailingZeros(_)
StripTrailingZeros(ds) ==
    IF ds # <<>> /\ ds[Len(ds)] = 0
    THEN StripTrailingZeros(SubSeq(ds, 1, Len(ds) - 1)) ELSE ds

ToLower(s) == [k \in 1..Len(s) |-> IF s[k] \in 65..90 THEN s[k] + 32 ELSE s[k]]

\* `f != 0.0`: false for 0.0 and -0.0, true for everything else, NaN included
F64NeZero(f) == f.cls # "fin" \/ f.ip # <<>> \/ f.fr # <<>>

\* str::parse::<f64>: an optional sign, then "nan", "inf" or "infinity" in
\* any case, or decimal digits with at most one point and at least one digit.
\* The exponent form is not modelled: no String argument of the model holds
\* 'e' or 'E'.
ParseF64(s) ==
    LET signed == s # <<>> /\ s[1] \in {43, 45}
        neg == s # <<>> /\ s[1] = 45
        body == IF signed THEN Tail(s) ELSE s
        low == ToLower(body)
        dots == {k \in 1..Len(body) : body[k] = 46}
        p == IF dots = {} THEN Len(body) + 1 ELSE CHOOSE k \in dots : TRUE
        ipart == SubSeq(body, 1, p - 1)
        fpart == SubSeq(body, p + 1, Len(body))
    IN  IF low = <<110, 97, 110>> THEN [ok |-> TRUE, val |-> F64NaN]
        ELSE IF low = <<105, 110, 102>>
                \/ low = <<105, 110, 102, 105, 110, 105, 116, 121>>
        THEN [ok |-> TRUE, val |-> F64Inf(neg)]
        ELSE IF Cardinality(dots) > 1
                \/ (\E k \in 1..Len(body) : body[k] # 46 /\ ~IsDigit(body[k]))
                \/ Len(ipart) + Len(fpart) = 0
        THEN [ok |-> FALSE]
        ELSE [ok |-> TRUE,
              val |-> F64("fin", neg, StripLeadingZeros(DigitsOf(ipart)),
                          StripTrailingZeros(DigitsOf(fpart)))]

\* f64::to_string
F64ToString(f) ==
    IF f.cls = "nan" THEN <<78, 97, 78>>
    ELSE LET sign == IF f.neg THEN <<45>> ELSE <<>>
         IN  IF f.cls = "inf" THEN sign \o <<105, 110, 102>>
             ELSE sign \o (IF f.ip = <<>> THEN <<48>> ELSE BytesOf(f.ip))
                       \o (IF f.fr = <<>> THEN <<>> ELSE <<46>> \o BytesOf(f.fr))

BitLen16(x) == IF x = 0 THEN 0 ELSE CHOOSE k \in 1..16 : 2^(k-1) <= x /\ x < 2^k

BitLen(m) ==
    IF m[4] # 0 THEN 48 + BitLen16(m[4])
    ELSE IF m[3] # 0 THEN 32 + BitLen16(m[3])
    ELSE IF m[2] # 0 THEN 16 + BitLen16(m[2])
    ELSE BitLen16(m[1])

\* m + k for a small k, on 64 bits
AddSmall(m, k) ==
    LET t1 == m[1] + k
        t2 == m[2] + t1 \div Limb
        t3 == m[3] + t2 \div Limb
        t4 == m[4] + t3 \div Limb
    IN  <<t1 % Limb, t2 % Limb, t3 % Limb, t4 % Limb>>

\* `i as f64`: the nearest float, ties to even, of a 53-bit significand
I64ToF64(i) ==
    LET m == Magnitude(i)
        sh == BitLen(m) - 53
        low == m[1] % 2^sh
        lsb == (m[1] \div 2^sh) % 2
        base == <<m[1] - low, m[2], m[3], m[4]>>
        up == low > 2^(sh-1) \/ (low = 2^(sh-1) /\ lsb = 1)
        r == IF sh <= 0 THEN m
             ELSE IF up THEN AddSmall(base, 2^sh) ELSE base
    IN  F64("fin", IsNegative(i), DecDigits(r), <<>>)

\* `f as i64`: truncation toward zero, saturating, NaN to 0
F64ToI64(f) ==
    IF f.cls = "nan" THEN I64Zero
    ELSE IF f.cls = "inf" THEN (IF f.neg THEN I64Min ELSE I64Max)
    ELSE LET mag == FromDigits(f.ip)
         IN  IF mag.over \/ mag.val[4] >= HalfLimb
             THEN (IF f.neg THEN I64Min ELSE I64Max)
             ELSE IF f.neg THEN Negate(mag.val) ELSE mag.val

(***************************************************************************)
(* Value: the tagged union the built-ins work on.                          *)
(***************************************************************************)
VString(s) == [kind |-> "String", s |-> s]
VInteger(i) == [kind |-> "Integer", i |-> i]
VFloat(f) == [kind |-> "Float", f |-> f]
VBool(b) == [kind |-> "Bool", b |-> b]
VNull == [kind |-> "Null"]
VArray(a) == [kind |-> "Array", a |-> a]
VTuple(t) == [kind |-> "Tuple", t |-> t]
VHashMap(h) == [kind |-> "HashMap", h |-> h]
VFunction == [kind |-> "Function"]

\* Result<Value, String>
Ok(v) == [ok |-> TRUE, val |-> v]
Err(msg) == [ok |-> FALSE, msg |-> msg, got |-> <<>>]
ErrGot(msg, x) == [ok |-> FALSE, msg |-> msg, got |-> <<x>>]
NoResult == [ok |-> FALSE, msg |-> "", got |-> <<>>]

(***************************************************************************)
(* The inputs of the model.                                                *)
(***************************************************************************)
\* '1' '-' '.' '\\' 'n'
ArgAlphabet == {49, 45, 46, BSLASH, 110}
\* the two bytes of U+00E9, a String of one character
TwoByteChar == <<195, 169>>
ArgStrings == SeqsUpTo(ArgAlphabet, MaxStrLen) \cup {TwoByteChar}

\* 0, 1, -1, 2^31, 2^32, 2^32 + 1, -2^31 - 1, i64::MAX, i64::MIN
ArgIntegers ==
    {I64Zero, <<1, 0, 0, 0>>, <<65535, 65535, 65535, 65535>>,
     <<0, 32768, 0, 0>>, <<0, 0, 1, 0>>, <<1, 0, 1, 0>>,
     <<65535, 32767, 65535, 65535>>, I64Max, I64Min}

\* 0.0, -0.0, 1.5, -2.0, NaN, inf, -inf
ArgFloats ==
    {F64("fin", FALSE, <<>>, <<>>), F64("fin", TRUE, <<>>, <<>>),
     F64("fin", FALSE, <<1>>, <<5>>), F64("fin", TRUE, <<2>>, <<>>),
     F64NaN, F64Inf(FALSE), F64Inf(TRUE)}

ElemValues == {VInteger(<<1, 0, 0, 0>>), VNull}
\* "a" "b" "c"
KeySamples == {<<97>>, <<98>>, <<99>>}
ArgHashMaps ==
    UNION {[D -> ElemValues] :
             D \in {K \in SUBSET KeySamples : Cardinality(K) <= MaxElems}}

Values ==
    {VString(s) : s \in ArgStrings}
    \cup {VInteger(i) : i \in ArgIntegers}
    \cup {VFloat(f) : f \in ArgFloats}
    \cup {VBool(b) : b \in BOOLEAN}
    \cup {VNull, VFunction}
    \cup {VArray(a) : a \in SeqsUpTo(ElemValues, MaxElems)}
    \cup {VTuple(t) : t \in SeqsUpTo(ElemValues, MaxElems)}
    \cup {VHashMap(h) : h \in ArgHashMaps}

\* the arguments after the first come from a smaller set
ExtraArgs == {VString(<<BSLASH, 110>>), VInteger(<<1, 0, 0, 0>>), VNull}
ArgLists ==
    {<<>>} \cup
    {<<v>> \o rest : v \in Values, rest \in SeqsUpTo(ExtraArgs, MaxArgs - 1)}

\* ' ' 'a' '\n'
StdinAlphabet == {SPACE, 97, NL}
StdinContents == SeqsUpTo(StdinAlphabet, MaxStdinLen)

\* the input stream when any built-in may be called: empty, or "a\n"
StdinSamples == {<<>>, <<97, NL>>}

\* the argument lists of the calls of input: none, a prompt ("" or "? "),
\* an argument that is no String, two arguments
InputArgLists ==
    {<<>>, <<VString(<<>>)>>, <<VString(<<63, SPACE>>)>>, <<VNull>>,
     <<VString(<<>>), VNull>>}

\* '\\' 'n' 't' '"' '\'' 'a'
EscAlphabet == {BSLASH, 110, 116, DQUOTE, SQUOTE, 97}
EscStrings == SeqsUpTo(EscAlphabet, MaxEscLen)

(***************************************************************************)
(* unescape_string: Regex::replace_all over the matches of \\([ntr\\"'])   *)
(***************************************************************************)
\* the class [ntr\\"'] of the pattern
EscClass == {110, 116, 114, BSLASH, DQUOTE, SQUOTE}

\* the pattern matches the two bytes at k, k+1
IsMatchAt(s, k) == k < Len(s) /\ s[k] = BSLASH /\ s[k + 1] \in EscClass

\* the starts of the successive non-overlapping matches at or after from
RECURSIVE MatchStarts(_, _)
MatchStarts(s, from) ==
    IF from >= Len(s) THEN <<>>
    ELSE IF IsMatchAt(s, from) THEN <<from>> \o MatchStarts(s, from + 2)
    ELSE MatchStarts(s, from + 1)

\* the closure: the text that replaces the match whose group 1 is c
Replacement(c) ==
    CASE c = 110 -> <<NL>>
      [] c = 116 -> <<TAB>>
      [] c = 114 -> <<CR>>
      [] c = BSLASH -> <<BSLASH>>
      [] c = DQUOTE -> <<DQUOTE>>
      [] c = SQUOTE -> <<SQUOTE>>
      [] OTHER -> <<BSLASH, c>>

\* replace_all: the text between the matches is copied, each match replaced
RECURSIVE ReplaceAll(_, _, _)
ReplaceAll(s, ms, last) ==
    IF ms = <<>> THEN SubSeq(s, last, Len(s))
    ELSE SubSeq(s, last, Head(ms) - 1)
         \o Replacement(s[Head(ms) + 1])
         \o ReplaceAll(s, Tail(ms), Head(ms) + 2)

\* every occurrence of the two bytes <<BSLASH, c>> replaced, left to right
RECURSIVE ReplacePair(_, _, _)
ReplacePair(s, c, rep) ==
    IF Len(s) < 2 THEN s
    ELSE IF s[1] = BSLASH /\ s[2] = c
         THEN rep \o ReplacePair(SubSeq(s, 3, Len(s)), c, rep)
         ELSE <<s[1]>> \o ReplacePair(Tail(s), c, rep)

\* one replace per escape, each over the result of the one before
unescape_string_chained(s) ==
    ReplacePair(ReplacePair(ReplacePair(ReplacePair(ReplacePair(ReplacePair(s,
        BSLASH, <<BSLASH>>), 110, <<NL>>), 116, <<TAB>>), 114, <<CR>>),
        DQUOTE, <<DQUOTE>>), SQUOTE, <<SQUOTE>>)

unescape_string(s) == ReplaceAll(s, MatchStarts(s, 1), 1)

(***************************************************************************)
(* Formatting of Values (Display and Debug of Value).                      *)
(***************************************************************************)
\* [T]::join
RECURSIVE Join(_, _)
Join(ss, sep) ==
    IF ss = <<>> THEN <<>>
    ELSE IF Len(ss) = 1 THEN ss[1]
    ELSE ss[1] \o sep \o Join(Tail(ss), sep)

\* bool::to_string: "true", "false"
BoolToString(b) ==
    IF b THEN <<116, 114, 117, 101>> ELSE <<102, 97, 108, 115, 101>>

\* "None"
NoneText == <<78, 111, 110, 101>>

\* the injective sequences over all of D: the orders a HashMap may iterate in
Orderings(D) ==
    {o \in [1..Cardinality(D) -> D] :
        \A j, k \in 1..Cardinality(D) : o[j] = o[k] => j = k}

\* Debug of an element: Integer(1), Null
DebugElem(v) ==
    IF v.kind = "Integer"
    THEN <<73, 110, 116, 101, 103, 101, 114, 40>> \o I64ToString(v.i) \o <<41>>
    ELSE <<78, 117, 108, 108>>

\* Debug of a Vec<Value>: [e1, e2]
DebugVec(a) ==
    <<91>> \o Join([k \in 1..Len(a) |-> DebugElem(a[k])], <<44, 32>>) \o <<93>>

\* Debug of a HashMap iterated in the order o: {"k1": e1, "k2": e2}
DebugMap(h, o) ==
    <<123>>
    \o Join([k \in 1..Len(o) |->
               <<DQUOTE>> \o o[k] \o <<DQUOTE, 58, 32>> \o DebugElem(h[o[k]])],
            <<44, 32>>)
    \o <<125>>

\* the texts Display may give for a Value (more than one for a HashMap)
ValueToString(v) ==
    CASE v.kind = "String" -> {v.s}
      [] v.kind = "Integer" -> {I64ToString(v.i)}
      [] v.kind = "Float" -> {F64ToString(v.f)}
      [] v.kind = "Bool" -> {BoolToString(v.b)}
      [] v.kind = "Null" -> {NoneText}
      [] v.kind = "Array" -> {DebugVec(v.a)}
      [] v.kind = "Tuple" -> {DebugVec(v.t)}
      [] v.kind = "HashMap" -> {DebugMap(v.h, o) : o \in Orderings(DOMAIN v.h)}
      [] OTHER -> {<<60, 102, 110, 62>>}

(***************************************************************************)
(* The built-ins, as functions of the argument list.                       *)
(***************************************************************************)
\* the Vec<String> that print collects: one text per argument, in order
RECURSIVE PrintOutputs(_)
PrintOutputs(a) ==
    IF a = <<>> THEN {<<>>}
    ELSE {<<t>> \o rest :
            t \in (IF Head(a).kind = "String"
                   THEN {unescape_string(Head(a).s)}
                   ELSE ValueToString(Head(a))),
            rest \in PrintOutputs(Tail(a))}

\* print that joins the texts with nothing between them
builtin_print_unspaced(a) ==
    {[result |-> Ok(VNull), out |-> Join(o, <<>>) \o <<NL>>] :
        o \in PrintOutputs(a)}

\* the results print may have: the value returned and the bytes written
builtin_print(a) ==
    {[result |-> Ok(VNull), out |-> Join(o, <<SPACE>>) \o <<NL>>] :
        o \in PrintOutputs(a)}

\* len that counts the characters of a String, not its bytes
builtin_len_chars(a) ==
    IF Len(a) # 1 THEN Err("len() takes exactly one argument")
    ELSE CASE a[1].kind = "String" ->
                Ok(VInteger(I64FromNat(
                    Cardinality({k \in 1..Len(a[1].s) : a[1].s[k] \notin 128..191}))))
           [] a[1].kind = "Array" -> Ok(VInteger(I64FromNat(Len(a[1].a))))
           [] a[1].kind = "Tuple" -> Ok(VInteger(I64FromNat(Len(a[1].t))))
           [] a[1].kind = "HashMap" ->
                Ok(VInteger(I64FromNat(Cardinality(DOMAIN a[1].h))))
           [] OTHER -> ErrGot("len() expects a string, array, tuple, or hashmap, but got {:?}", a[1])

builtin_len(a) ==
    IF Len(a) # 1 THEN Err("len() takes exactly one argument")
    ELSE CASE a[1].kind = "String" -> Ok(VInteger(I64FromNat(Len(a[1].s))))
           [] a[1].kind = "Array" -> Ok(VInteger(I64FromNat(Len(a[1].a))))
           [] a[1].kind = "Tuple" -> Ok(VInteger(I64FromNat(Len(a[1].t))))
           [] a[1].kind = "HashMap" ->
                Ok(VInteger(I64FromNat(Cardinality(DOMAIN a[1].h))))
           [] OTHER -> ErrGot("len() expects a string, array, tuple, or hashmap, but got {:?}", a[1])

\* the results str may have (more than one for a HashMap)
builtin_str(a) ==
    IF Len(a) # 1 THEN {Err("str() takes exactly one argument")}
    ELSE CASE a[1].kind = "String" -> {Ok(VString(a[1].s))}
           [] a[1].kind = "Integer" -> {Ok(VString(I64ToString(a[1].i)))}
           [] a[1].kind = "Float" -> {Ok(VString(F64ToString(a[1].f)))}
           [] a[1].kind = "Bool" -> {Ok(VString(BoolToString(a[1].b)))}
           [] a[1].kind = "Null" -> {Ok(VString(NoneText))}
           [] a[1].kind = "Array" -> {Ok(VString(DebugVec(a[1].a)))}
           [] a[1].kind = "Tuple" -> {Ok(VString(DebugVec(a[1].t)))}
           [] a[1].kind = "HashMap" ->
                {Ok(VString(DebugMap(a[1].h, o))) : o \in Orderings(DOMAIN a[1].h)}
           [] OTHER -> {ErrGot("str() expects a string, integer, float, boolean, array, tuple, or hashmap, but got {:?}", a[1])}

builtin_int(a) ==
    IF Len(a) # 1 THEN Err("int() takes exactly one argument")
    ELSE CASE a[1].kind = "String" ->
                LET r == ParseI64(a[1].s)
                IN  IF r.ok THEN Ok(VInteger(r.val))
                    ELSE ErrGot("Invalid string for int conversion: {}", a[1].s)
           [] a[1].kind = "Integer" -> Ok(VInteger(a[1].i))
           [] a[1].kind = "Float" -> Ok(VInteger(F64ToI64(a[1].f)))
           [] OTHER -> ErrGot("int() expects a string, integer, or float, but got {:?}", a[1])

builtin_float(a) ==
    IF Len(a) # 1 THEN Err("float() takes exactly one argument")
    ELSE CASE a[1].kind = "String" ->
                LET r == ParseF64(a[1].s)
                IN  IF r.ok THEN Ok(VFloat(r.val))
                    ELSE ErrGot("Invalid string for float conversion: {}", a[1].s)
           [] a[1].kind = "Integer" -> Ok(VFloat(I64ToF64(a[1].i)))
           [] a[1].kind = "Float" -> Ok(VFloat(a[1].f))
           [] OTHER -> ErrGot("float() expects a string, integer, or float, but got {:?}", a[1])

\* bool that takes an Integer to be true when it is positive
builtin_bool_positive(a) ==
    IF Len(a) # 1 THEN Err("bool() takes exactly one argument")
    ELSE CASE a[1].kind = "String" -> Ok(VBool(a[1].s # <<>>))
           [] a[1].kind = "Integer" ->
                Ok(VBool(a[1].i # I64Zero /\ ~IsNegative(a[1].i)))
           [] a[1].kind = "Float" -> Ok(VBool(F64NeZero(a[1].f)))
           [] OTHER -> ErrGot("bool() expects a string, integer, or float, but got {:?}", a[1])

builtin_bool(a) ==
    IF Len(a) # 1 THEN Err("bool() takes exactly one argument")
    ELSE CASE a[1].kind = "String" -> Ok(VBool(a[1].s # <<>>))
           [] a[1].kind = "Integer" -> Ok(VBool(a[1].i # I64Zero))
           [] a[1].kind = "Float" -> Ok(VBool(F64NeZero(a[1].f)))
           [] OTHER -> ErrGot("bool() expects a string, integer, or float, but got {:?}", a[1])

\* "String" "Integer" "Float" "Boolean" "Array" "Tuple" "HashMap"
TypeName(kind) ==
    CASE kind = "String" -> <<83, 116, 114, 105, 110, 103>>
      [] kind = "Integer" -> <<73, 110, 116, 101, 103, 101, 114>>
      [] kind = "Float" -> <<70, 108, 111, 97, 116>>
      [] kind = "Bool" -> <<66, 111, 111, 108, 101, 97, 110>>
      [] kind = "Null" -> NoneText
      [] kind = "Array" -> <<65, 114, 114, 97, 121>>
      [] kind = "Tuple" -> <<84, 117, 112, 108, 101>>
      [] kind = "HashMap" -> <<72, 97, 115, 104, 77, 97, 112>>

builtin_type(a) ==
    IF Len(a) # 1 THEN Err("type() takes exactly one argument")
    ELSE IF a[1].kind \in {"String", "Integer", "Float", "Bool", "Null",
                           "Array", "Tuple", "HashMap"}
         THEN Ok(VString(TypeName(a[1].kind)))
         ELSE ErrGot("type() only works with strings, integers, floats, booleans, none, arrays, tuples, and hashmaps, but got {:?}", a[1])

\* exit: code is <<c>> when the process is terminated with the i32 c, and
\* <<>> when the call returns
builtin_exit(a) ==
    IF Len(a) # 1
    THEN [result |-> Err("exit() takes exactly one argument"), code |-> <<>>]
    ELSE IF a[1].kind = "Integer"
         THEN [result |-> NoResult, code |-> <<TruncI32(a[1].i)>>]
         ELSE [result |-> ErrGot("exit() only works with integer argument, got {:?}", a[1]),
               code |-> <<>>]

\* char::is_whitespace on the bytes of ASCII
IsWhite(b) == b \in {TAB, NL, 11, 12, CR, SPACE}

RECURSIVE TrimStart(_)
TrimStart(s) == IF s # <<>> /\ IsWhite(Head(s)) THEN TrimStart(Tail(s)) ELSE s

RECURSIVE TrimEnd(_)
TrimEnd(s) ==
    IF s # <<>> /\ IsWhite(s[Len(s)])
    THEN TrimEnd(SubSeq(s, 1, Len(s) - 1)) ELSE s

\* str::trim
Trim(s) == TrimEnd(TrimStart(s))

\* Stdin::read_line: the bytes up to and including the first newline, or all
\* of the stream when it has none
ReadLine(stream) ==
    LET nls == {k \in 1..Len(stream) : stream[k] = NL}
        n == IF nls = {} THEN Len(stream)
             ELSE CHOOSE k \in nls : \A j \in nls : k <= j
    IN  [line |-> SubSeq(stream, 1, n), rest |-> SubSeq(stream, n + 1, Len(stream))]

\* "> "
DefaultPrompt == <<62, SPACE>>

\* input that looks at its arguments only after the prompt and the read
builtin_input_checks_late(a, stream, flushOk, readOk) ==
    LET prompt == IF Len(a) = 1 /\ a[1].kind = "String" THEN a[1].s
                  ELSE DefaultPrompt
        rd == ReadLine(stream)
    IN  IF Len(a) > 1
        THEN [result |-> ErrGot("input() takes at most one argument, but got {}", Len(a)),
              out |-> prompt, input |-> rd.line, rest |-> rd.rest]
        ELSE IF Len(a) = 1 /\ a[1].kind # "String"
        THEN [result |-> Err("input() argument must be a string"),
              out |-> prompt, input |-> rd.line, rest |-> rd.rest]
        ELSE IF ~flushOk
        THEN [result |-> Err("Failed to flush stdout: {}"),
              out |-> prompt, input |-> <<>>, rest |-> stream]
        ELSE IF ~readOk
        THEN [result |-> Err("Failed to read input: {}"),
              out |-> prompt, input |-> <<>>, rest |-> stream]
        ELSE [result |-> Ok(VString(Trim(rd.line))),
              out |-> prompt, input |-> rd.line, rest |-> rd.rest]

\* input: the value returned, the bytes written, the local `input` and what
\* is left of the input stream; flushOk and readOk are the outcomes of the
\* flush of stdout and of read_line
builtin_input(a, stream, flushOk, readOk) ==
    IF Len(a) > 1
    THEN [result |-> ErrGot("input() takes at most one argument, but got {}", Len(a)),
          out |-> <<>>, input |-> <<>>, rest |-> stream]
    ELSE IF Len(a) = 1 /\ a[1].kind # "String"
    THEN [result |-> Err("input() argument must be a string"),
          out |-> <<>>, input |-> <<>>, rest |-> stream]
    ELSE LET prompt == IF Len(a) = 0 THEN DefaultPrompt ELSE a[1].s
             rd == ReadLine(stream)
         IN  IF ~flushOk
             THEN [result |-> Err("Failed to flush stdout: {}"),
                   out |-> prompt, input |-> <<>>, rest |-> stream]
             ELSE IF ~readOk
             THEN [result |-> Err("Failed to read input: {}"),
                   out |-> prompt, input |-> <<>>, rest |-> stream]
             ELSE [result |-> Ok(VString(Trim(rd.line))),
                   out |-> prompt, input |-> rd.line, rest |-> rd.rest]

(***************************************************************************)
(* State.                                                                  *)
(***************************************************************************)
VARIABLES
    driver,     \* what runs: "builtins", "unescape", "run_file" or "repl"
    pc,         \* where it is
    args,       \* the argument list of the call of a built-in
    called,     \* the built-in that was called, "" before the call
    result,     \* the Result the call returned
    stdin,      \* the bytes waiting in the input stream
    stdout,     \* the bytes written to the output stream
    input,      \* the local `input` of builtin_input: the line as read
    exitCode,   \* <<c>> once std::process::exit(c) was called, else <<>>
    file,       \* run_file: what the file system says about the script
    readline,   \* repl: what the last call of readline returned
    line,       \* repl: the local `input`, the trimmed line
    nread,      \* repl: the number of calls of readline
    history,    \* repl: the entries of the editor's history
    saves,      \* repl: the number of calls of save_history
    stages,     \* the stages run on the current script or line
    diags,      \* the diagnostics printed for the current script or line
    ended       \* how run_file or run_repl ended, "" while it runs

vars == <<driver, pc, args, called, result, stdin, stdout, input, exitCode,
          file, readline, line, nread, history, saves, stages, diags, ended>>

builtinVars == <<args, called, result, stdin, stdout, input, exitCode>>
driverVars == <<file, readline, line, nread, history, saves, stages, diags, ended>>

NoFile == [exists |-> FALSE, is_file |-> FALSE, ends_nk |-> FALSE,
           len |-> 0, readable |-> FALSE]

NoReadline == [kind |-> "", text |-> <<>>]

DriverIdle ==
    /\ file = NoFile
    /\ readline = NoReadline
    /\ line = <<>>
    /\ nread = 0
    /\ history = <<>>
    /\ saves = 0
    /\ stages = <<>>
    /\ diags = <<>>
    /\ ended = ""

BuiltinIdle ==
    /\ args = <<>>
    /\ called = ""
    /\ result = NoResult
    /\ stdin = <<>>
    /\ stdout = <<>>
    /\ input = <<>>
    /\ exitCode = <<>>

(***************************************************************************)
(* One call of a built-in.                                                 *)
(***************************************************************************)
InitBuiltins ==
    /\ driver = "builtins"
    /\ pc = "call"
    /\ args \in ArgLists
    /\ called = ""
    /\ result = NoResult
    /\ stdin \in StdinSamples
    /\ stdout = <<>>
    /\ input = <<>>
    /\ exitCode = <<>>
    /\ DriverIdle

\* a call of a built-in that neither reads, writes nor exits
Returns(name, r) ==
    /\ driver = "builtins"
    /\ pc = "call"
    /\ pc' = "return"
    /\ called' = name
    /\ result' = r
    /\ UNCHANGED <<driver, args, stdin, stdout, input, exitCode>>
    /\ UNCHANGED driverVars

CallPrint ==
    /\ driver = "builtins"
    /\ pc = "call"
    /\ \E e \in builtin_print(args) :
          /\ result' = e.result
          /\ stdout' = stdout \o e.out
    /\ pc' = "return"
    /\ called' = "print"
    /\ UNCHANGED <<driver, args, stdin, input, exitCode>>
    /\ UNCHANGED driverVars

CallLen == Returns("len", builtin_len(args))

CallStr == \E r \in builtin_str(args) : Returns("str", r)

CallInt == Returns("int", builtin_int(args))

CallFloat == Returns("float", builtin_float(args))

CallBool == Returns("bool", builtin_bool(args))

CallType == Returns("type", builtin_type(args))

CallExit ==
    /\ driver = "builtins"
    /\ pc = "call"
    /\ LET e == builtin_exit(args)
       IN  /\ result' = e.result
           /\ exitCode' = e.code
           /\ pc' = IF e.code = <<>> THEN "return" ELSE "terminated"
    /\ called' = "exit"
    /\ UNCHANGED <<driver, args, stdin, stdout, input>>
    /\ UNCHANGED driverVars

CallInput ==
    /\ driver = "builtins"
    /\ pc = "call"
    /\ \E flushOk, readOk \in BOOLEAN :
          LET e == builtin_input(args, stdin, flushOk, readOk)
          IN  /\ result' = e.result
              /\ stdout' = stdout \o e.out
              /\ input' = e.input
              /\ stdin' = e.rest
    /\ pc' = "return"
    /\ called' = "input"
    /\ UNCHANGED <<driver, args, exitCode>>
    /\ UNCHANGED driverVars

Next ==
    \/ CallPrint
    \/ CallLen
    \/ CallStr
    \/ CallInt
    \/ CallFloat
    \/ CallBool
    \/ CallType
    \/ CallExit
    \/ CallInput

Spec == InitBuiltins /\ [][Next]_vars

(***************************************************************************)
(* input on its own, over more input streams.                              *)
(***************************************************************************)
InitInput ==
    /\ driver = "builtins"
    /\ pc = "call"
    /\ args \in InputArgLists
    /\ called = ""
    /\ result = NoResult
    /\ stdin \in StdinContents
    /\ stdout = <<>>
    /\ input = <<>>
    /\ exitCode = <<>>
    /\ DriverIdle

NextInput == CallInput

SpecInput == InitInput /\ [][NextInput]_vars

(***************************************************************************)
(* unescape_string on its own, over longer texts.                          *)
(***************************************************************************)
InitUnescape ==
    /\ driver = "unescape"
    /\ pc = "call"
    /\ \E s \in EscStrings : args = <<VString(s)>>
    /\ called = ""
    /\ result = NoResult
    /\ stdin = <<>>
    /\ stdout = <<>>
    /\ input = <<>>
    /\ exitCode = <<>>
    /\ DriverIdle

CallUnescape ==
    /\ driver = "unescape"
    /\ pc = "call"
    /\ pc' = "return"
    /\ called' = "unescape_string"
    /\ result' = Ok(VString(unescape_string(args[1].s)))
    /\ UNCHANGED <<driver, args, stdin, stdout, input, exitCode>>
    /\ UNCHANGED driverVars

NextUnescape == CallUnescape

SpecUnescape == InitUnescape /\ [][NextUnescape]_vars

(***************************************************************************)
(* The drivers.  The lexer, the parser and the interpreter are not part of *)
(* the drivers: each stage is a call whose outcome is any value of its     *)
(* return type.                                                            *)
(***************************************************************************)
LexResults == {"Ok", "UnexpectedChar", "UnterminatedString", "InvalidNumber"}
ParseResults == {"Ok", "Err"}
\* "Exit": the script called the exit built-in with an Integer
RunResults == {"Ok", "Err", "Exit"}

Stage(name, outcome) == [stage |-> name, outcome |-> outcome]
Diag(stream, about, text) == [stream |-> stream, about |-> about, text |-> text]

\* the eprintln! of the match on LexError
LexDiag(r) ==
    Diag("stderr", "tokenize",
         CASE r = "UnexpectedChar" -> "Unexpected character '{}' at line {}, column {}"
           [] r = "UnterminatedString" -> "Unterminated string starting at line {}, column {}"
           [] r = "InvalidNumber" -> "Invalid number '{}' at line {}, column {}")

Files ==
    {NoFile} \cup
    [exists : {TRUE}, is_file : BOOLEAN, ends_nk : BOOLEAN, len : 0..1,
     readable : BOOLEAN]

\* check_file_is_valid: the answer and what it prints
check_file_is_valid(f) ==
    IF ~f.exists
    THEN [valid |-> FALSE,
          diags |-> <<Diag("stderr", "file", "Error: File '{}' does not exist")>>]
    ELSE IF f.is_file /\ f.ends_nk
    THEN IF f.len > 0
         THEN [valid |-> TRUE, diags |-> <<>>]
         ELSE [valid |-> FALSE,
               diags |-> <<Diag("stderr", "file", "Error: File '{}' is empty")>>]
    ELSE [valid |-> FALSE,
          diags |-> <<Diag("stderr", "file", "Error: File '{}' is not a valid script, it should end with .nk")>>]

\* read_file: whether it returns Some(content), and what it prints
read_file(f) ==
    LET c == check_file_is_valid(f)
    IN  IF ~c.valid THEN [some |-> FALSE, diags |-> c.diags]
        ELSE IF f.readable THEN [some |-> TRUE, diags |-> <<>>]
        ELSE [some |-> FALSE,
              diags |-> <<Diag("stderr", "file", "Error reading file '{}': {}")>>]

InitRunFile ==
    /\ driver = "run_file"
    /\ pc = "start"
    /\ BuiltinIdle
    /\ file \in Files
    /\ readline = NoReadline
    /\ line = <<>>
    /\ nread = 0
    /\ history = <<>>
    /\ saves = 0
    /\ stages = <<>>
    /\ diags = <<>>
    /\ ended = ""

\* run_file, up to the call of tokenize_input
FileRead ==
    /\ driver = "run_file"
    /\ pc = "start"
    /\ LET r == read_file(file)
       IN  IF r.some
           THEN /\ pc' = "tokenize"
                /\ diags' = r.diags
                /\ ended' = ended
           ELSE /\ pc' = "done"
                /\ diags' = Append(r.diags,
                      Diag("stderr", "file", "Failed to read or validate the file '{}'"))
                /\ ended' = "returned"
    /\ UNCHANGED <<driver, file, readline, line, nread, history, saves, stages>>
    /\ UNCHANGED builtinVars

\* where run_file goes after tokenize_input returned r
FileAfterTokenize_fallthrough(r) == "parse"

FileAfterTokenize(r) == IF r = "Ok" THEN "parse" ELSE "done"

FileTokenize ==
    /\ driver = "run_file"
    /\ pc = "tokenize"
    /\ \E r \in LexResults :
          /\ stages' = Append(stages, Stage("tokenize", r))
          /\ diags' = IF r = "Ok" THEN diags ELSE Append(diags, LexDiag(r))
          /\ pc' = FileAfterTokenize(r)
          /\ ended' = IF FileAfterTokenize(r) = "done" THEN "returned" ELSE ended
    /\ UNCHANGED <<driver, file, readline, line, nread, history, saves>>
    /\ UNCHANGED builtinVars

FileParse ==
    /\ driver = "run_file"
    /\ pc = "parse"
    /\ \E r \in ParseResults :
          /\ stages' = Append(stages, Stage("parse", r))
          /\ IF r = "Ok"
             THEN /\ pc' = "run"
                  /\ UNCHANGED <<diags, ended>>
             ELSE /\ pc' = "done"
                  /\ diags' = Append(diags,
                        Diag("stderr", "parse", "Error parsing statements: {}"))
                  /\ ended' = "returned"
    /\ UNCHANGED <<driver, file, readline, line, nread, history, saves>>
    /\ UNCHANGED builtinVars

FileRun ==
    /\ driver = "run_file"
    /\ pc = "run"
    /\ \E r \in RunResults :
          /\ stages' = Append(stages, Stage("run", r))
          /\ CASE r = "Ok" ->
                    /\ pc' = "done"
                    /\ ended' = "returned"
                    /\ UNCHANGED <<diags, exitCode>>
               [] r = "Err" ->
                    /\ pc' = "done"
                    /\ ended' = "returned"
                    /\ diags' = Append(diags,
                          Diag("stderr", "run", "Error executing script: {}"))
                    /\ UNCHANGED exitCode
               [] r = "Exit" ->
                    /\ \E i \in ArgIntegers :
                          exitCode' = builtin_exit(<<VInteger(i)>>).code
                    /\ pc' = "terminated"
                    /\ ended' = "exit"
                    /\ UNCHANGED diags
    /\ UNCHANGED <<driver, file, readline, line, nread, history, saves>>
    /\ UNCHANGED <<args, called, result, stdin, stdout, input>>

\* "exit"
ExitWord == <<101, 120, 105, 116>>

\* the lines typed: "", " ", "exit", " exit ", "x", "y"
ReplLines ==
    {<<>>, <<SPACE>>, ExitWord, <<SPACE>> \o ExitWord \o <<SPACE>>,
     <<120>>, <<121>>}

\* Result<String, ReadlineError>
ReadlineResults ==
    {[kind |-> "Ok", text |-> l] : l \in ReplLines}
    \cup {[kind |-> k, text |-> <<>>] : k \in {"Interrupted", "Eof", "Error"}}

\* what load_history may put in the editor's history
LoadedHistories == {<<>>, <<<<120>>>>}

InitRepl ==
    /\ driver = "repl"
    /\ pc = "start"
    /\ BuiltinIdle
    /\ DriverIdle

\* run_repl, up to the loop
ReplStart ==
    /\ driver = "repl"
    /\ pc = "start"
    /\ \E editorOk, createOk, loadOk \in BOOLEAN :
          LET banner == <<Diag("stdout", "repl", "Welcome to Nikl REPL!"),
                          Diag("stdout", "repl", "To exit, type 'exit' or press Ctrl+D")>>
          IN  IF ~editorOk \/ ~createOk
              THEN /\ pc' = "done"
                   /\ ended' = "returned_err"
                   /\ diags' = banner
                   /\ history' = history
              ELSE /\ pc' = "readline"
                   /\ ended' = ended
                   /\ IF loadOk
                      THEN /\ history' \in LoadedHistories
                           /\ diags' = banner
                      ELSE /\ history' = history
                           /\ diags' = Append(banner,
                                 Diag("stderr", "repl", "No previous history found"))
    /\ UNCHANGED <<driver, file, readline, line, nread, saves, stages>>
    /\ UNCHANGED builtinVars

\* the match on readline: where the loop goes with the result rl
AfterReadline_interrupt_breaks(rl) ==
    CASE rl.kind = "Ok" ->
            IF Trim(rl.text) = <<>> THEN "readline"
            ELSE IF Trim(rl.text) = ExitWord THEN "save_history"
            ELSE "add_history"
      [] OTHER -> "save_history"

AfterReadline(rl) ==
    CASE rl.kind = "Ok" ->
            IF Trim(rl.text) = <<>> THEN "readline"
            ELSE IF Trim(rl.text) = ExitWord THEN "save_history"
            ELSE "add_history"
      [] rl.kind = "Interrupted" -> "readline"
      [] rl.kind = "Eof" -> "save_history"
      [] OTHER -> "save_history"

ReplReadline ==
    /\ driver = "repl"
    /\ pc = "readline"
    /\ nread < MaxLines
    /\ \E rl \in ReadlineResults :
          /\ readline' = rl
          /\ line' = IF rl.kind = "Ok" THEN Trim(rl.text) ELSE line
          /\ diags' =
                CASE rl.kind = "Ok" -> <<>>
                  [] rl.kind = "Interrupted" ->
                        <<Diag("stdout", "repl", "Keyboard Interrupt")>>
                  [] rl.kind = "Eof" ->
                        <<Diag("stdout", "repl", "Exiting REPL.")>>
                  [] OTHER -> <<Diag("stderr", "repl", "Error: {:?}")>>
          /\ pc' = AfterReadline(rl)
    /\ nread' = nread + 1
    /\ stages' = <<>>
    /\ UNCHANGED <<driver, file, history, saves, ended>>
    /\ UNCHANGED builtinVars

\* rl.add_history_entry(input)?
ReplAddHistory ==
    /\ driver = "repl"
    /\ pc = "add_history"
    /\ \E ok \in BOOLEAN :
          IF ok
          THEN /\ history' = IF history # <<>> /\ history[Len(history)] = line
                             THEN history ELSE Append(history, line)
               /\ pc' = "tokenize"
               /\ ended' = ended
          ELSE /\ history' = history
               /\ pc' = "done"
               /\ ended' = "returned_err"
    /\ UNCHANGED <<driver, file, readline, line, nread, saves, stages, diags>>
    /\ UNCHANGED builtinVars

ReplTokenize ==
    /\ driver = "repl"
    /\ pc = "tokenize"
    /\ \E r \in LexResults :
          /\ stages' = Append(stages, Stage("tokenize", r))
          /\ diags' = IF r = "Ok" THEN diags ELSE Append(diags, LexDiag(r))
          /\ pc' = IF r = "Ok" THEN "parse" ELSE "readline"
    /\ UNCHANGED <<driver, file, readline, line, nread, history, saves, ended>>
    /\ UNCHANGED builtinVars

ReplParse ==
    /\ driver = "repl"
    /\ pc = "parse"
    /\ \E r \in ParseResults :
          /\ stages' = Append(stages, Stage("parse", r))
          /\ diags' = IF r = "Ok" THEN diags
                      ELSE Append(diags, Diag("stderr", "parse", "Parse error: {}"))
          /\ pc' = IF r = "Ok" THEN "run" ELSE "readline"
    /\ UNCHANGED <<driver, file, readline, line, nread, history, saves, ended>>
    /\ UNCHANGED builtinVars

ReplRun ==
    /\ driver = "repl"
    /\ pc = "run"
    /\ \E r \in RunResults :
          /\ stages' = Append(stages, Stage("run", r))
          /\ CASE r = "Ok" ->
                    /\ pc' = "readline"
                    /\ UNCHANGED <<diags, exitCode, ended>>
               [] r = "Err" ->
                    /\ pc' = "readline"
                    /\ diags' = Append(diags,
                          Diag("stderr", "run", "Runtime error: {}"))
                    /\ UNCHANGED <<exitCode, ended>>
               [] r = "Exit" ->
                    /\ \E i \in ArgIntegers :
                          exitCode' = builtin_exit(<<VInteger(i)>>).code
                    /\ pc' = "terminated"
                    /\ ended' = "exit"
                    /\ UNCHANGED diags
    /\ UNCHANGED <<driver, file, readline, line, nread, history, saves>>
    /\ UNCHANGED <<args, called, result, stdin, stdout, input>>

\* rl.save_history after the loop, then Ok(())
ReplSaveHistory ==
    /\ driver = "repl"
    /\ pc = "save_history"
    /\ saves' = saves + 1
    /\ \E ok \in BOOLEAN :
          diags' = IF ok THEN diags
                   ELSE Append(diags, Diag("stderr", "repl", "Failed to save history"))
    /\ pc' = "done"
    /\ ended' = "returned_ok"
    /\ UNCHANGED <<driver, file, readline, line, nread, history, stages>>
    /\ UNCHANGED builtinVars

InitDrivers == InitRunFile \/ InitRepl

NextDrivers ==
    \/ FileRead
    \/ FileTokenize
    \/ FileParse
    \/ FileRun
    \/ ReplStart
    \/ ReplReadline
    \/ ReplAddHistory
    \/ ReplTokenize
    \/ ReplParse
    \/ ReplRun
    \/ ReplSaveHistory

SpecDrivers == InitDrivers /\ [][NextDrivers]_vars

(***************************************************************************)
(* Properties.                                                             *)
(***************************************************************************)
\* the Integer whose value is the small natural number n
IntegerOf(n) == VInteger(<<n, 0, 0, 0>>)

C2_BoolTruthiness ==
    called = "bool" =>
        IF Len(args) = 1 /\ args[1].kind \in {"String", "Integer", "Float"}
        THEN result =
               Ok(VBool(CASE args[1].kind = "String" -> Len(args[1].s) > 0
                          [] args[1].kind = "Integer" ->
                                I64ToString(args[1].i) # <<48>>
                          [] args[1].kind = "Float" ->
                                ~(args[1].f.cls = "fin" /\ args[1].f.ip = <<>>
                                  /\ args[1].f.fr = <<>>)))
        ELSE ~result.ok /\ result.msg # ""

\* bool of the Integer -1 returned true
C2_Witness ==
    /\ called = "bool"
    /\ args = <<VInteger(<<65535, 65535, 65535, 65535>>)>>
    /\ result = Ok(VBool(TRUE))

\* the line without its trailing newline, otherwise as read
StripNewline(l) ==
    IF l # <<>> /\ l[Len(l)] = NL THEN SubSeq(l, 1, Len(l) - 1) ELSE l

\* C3: input with no argument or one String prompt returns the line it read
\* with the trailing newline stripped and otherwise exactly as read.
C3_InputKeepsLine ==
    (called = "input" /\ result.ok) => result.val = VString(StripNewline(input))

\* C4: exit with exactly one Integer i terminates the process with an exit
\* code equal to i.
C4_ExitCodeIsArgument ==
    (called = "exit" /\ Len(args) = 1 /\ args[1].kind = "Integer") =>
        /\ pc = "terminated"
        /\ exitCode # <<>>
        /\ SignExtend(exitCode[1]) = args[1].i

\* what the escape letter c denotes
Denotes(c) ==
    CASE c = 110 -> NL
      [] c = 116 -> TAB
      [] c = 114 -> CR
      [] OTHER -> c

\* one pass from the left: an escape is taken as a whole and what it yields
\* is not looked at again
RECURSIVE SinglePass(_)
SinglePass(s) ==
    IF s = <<>> THEN <<>>
    ELSE IF Len(s) >= 2 /\ s[1] = BSLASH
            /\ s[2] \in {110, 116, 114, BSLASH, DQUOTE, SQUOTE}
         THEN <<Denotes(s[2])>> \o SinglePass(Tail(Tail(s)))
         ELSE <<s[1]>> \o SinglePass(Tail(s))

\* the texts of the arguments with one space between two neighbours
RECURSIVE Spaced(_)
Spaced(ts) ==
    IF ts = <<>> THEN <<>>
    ELSE IF Len(ts) = 1 THEN ts[1]
    ELSE Spaced(SubSeq(ts, 1, Len(ts) - 1)) \o <<SPACE>> \o ts[Len(ts)]

\* the texts an argument may contribute to the line print writes
TextsOf(v) == IF v.kind = "String" THEN {SinglePass(v.s)} ELSE ValueToString(v)

WrongCall(name, a) ==
    CASE name = "len" ->
            Len(a) # 1 \/ a[1].kind \notin {"String", "Array", "Tuple", "HashMap"}
      [] name \in {"str", "type"} -> Len(a) # 1 \/ a[1].kind = "Function"
      [] name \in {"int", "float", "bool"} ->
            Len(a) # 1 \/ a[1].kind \notin {"String", "Integer", "Float"}
      [] name = "input" -> Len(a) > 1 \/ (Len(a) = 1 /\ a[1].kind # "String")
      [] name = "exit" -> Len(a) # 1 \/ a[1].kind # "Integer"
      [] OTHER -> FALSE

\* C6: a built-in called with a wrong number of arguments or an argument of
\* an unsupported kind returns an error and does nothing else: it writes
\* nothing, reads nothing and does not terminate the process.
C6_ErrorsHaveNoEffect ==
    [][WrongCall(called', args) =>
          /\ ~result'.ok
          /\ result'.msg # ""
          /\ pc' = "return"
          /\ stdout' = stdout
          /\ stdin' = stdin
          /\ input' = input
          /\ exitCode' = exitCode]_vars

\* input with two arguments returned an error with a line waiting unread
C6_Witness ==
    /\ called = "input"
    /\ Len(args) = 2
    /\ ~result.ok
    /\ result.msg # ""
    /\ stdin = <<97, NL>>
    /\ stdout = <<>>

StageOrder == <<"tokenize", "parse", "run">>

\* the stage that ran last on the current script or line failed
LastStageFailed ==
    stages # <<>> /\ stages[Len(stages)].outcome \notin {"Ok", "Exit"}

\* C7: in both drivers the stages run in the order tokenize, parse, run and
\* a stage runs only after the one before it succeeded, so a failed stage is
\* the last one run; exactly one diagnostic is printed for the failing
\* stage, and none when no stage failed.
C7_StagesInOrder ==
    driver \in {"run_file", "repl"} =>
        /\ Len(stages) <= Len(StageOrder)
        /\ \A k \in 1..Len(stages) :
              /\ stages[k].stage = StageOrder[k]
              /\ k < Len(stages) => stages[k].outcome = "Ok"
        /\ LastStageFailed =>
              /\ Len(diags) = 1
              /\ diags[1].stream = "stderr"
              /\ diags[1].about = stages[Len(stages)].stage
              /\ pc \notin {"tokenize", "parse", "run"}
        /\ (stages # <<>> /\ ~LastStageFailed) => diags = <<>>

\* a line of the REPL was tokenized, failed to parse, and one diagnostic
\* about the parse was printed
C7_Witness ==
    /\ driver = "repl"
    /\ stages = <<Stage("tokenize", "Ok"), Stage("parse", "Err")>>
    /\ Len(diags) = 1
    /\ diags[1].about = "parse"
    /\ pc = "readline"

\* C8: unescape_string makes one pass from the left over non-overlapping
\* escapes: each backslash followed by n, t, r, backslash or a quote becomes
\* the character it denotes, every other byte is kept, and what a
\* replacement yields is not scanned again: an escaped backslash followed by
\* n gives a backslash and n.
C8_UnescapeSinglePass ==
    called = "unescape_string" =>
        /\ result = Ok(VString(SinglePass(args[1].s)))
        /\ args[1].s = <<BSLASH, BSLASH, 110>> => result.val.s = <<BSLASH, 110>>

\* an escaped backslash followed by n gave a backslash and n
C8_Witness ==
    /\ called = "unescape_string"
    /\ args = <<VString(<<BSLASH, BSLASH, 110>>)>>
    /\ result = Ok(VString(<<BSLASH, 110>>))

\* the REPL has read lines and its loop is over
SessionOver ==
    driver = "repl" /\ nread > 0 /\ pc \in {"save_history", "done", "terminated"}

\* the last thing read was the line 'exit' or the end of input
ExitLineOrEof ==
    \/ readline.kind = "Eof"
    \/ readline.kind = "Ok" /\ line = ExitWord

\* after an empty line, a failed stage or an interrupt the loop reads on
LoopReadsOn ==
    driver = "repl" =>
        /\ readline.kind = "Interrupted" => pc = "readline"
        /\ (readline.kind = "Ok" /\ line = <<>>) => pc = "readline"
        /\ LastStageFailed => pc = "readline"

\* C9: the REPL session ends only on the line 'exit' or the end of input;
\* after an empty line, a lexing, parsing or runtime error and an interrupt
\* the loop goes on to read the next line.
C9_EndsOnlyOnExitOrEof ==
    /\ SessionOver => ExitLineOrEof
    /\ LoopReadsOn

\* C9 as amended: the session ends only on the line 'exit', the end of
\* input, another error of the line reader, a failure to record the history
\* entry, or a call of the exit built-in by the line; after an empty line, a
\* lexing, parsing or runtime error and an interrupt the loop reads on.
C9_EndsOnlyOnListedCauses ==
    /\ SessionOver =>
          \/ ExitLineOrEof
          \/ readline.kind = "Error"
          \/ /\ readline.kind = "Ok"
             /\ pc = "done"
             /\ ended = "returned_err"
             /\ stages = <<>>
          \/ /\ readline.kind = "Ok"
             /\ pc = "terminated"
             /\ ended = "exit"
             /\ stages # <<>>
             /\ stages[Len(stages)] = Stage("run", "Exit")
    /\ LoopReadsOn

\* the second line read called the exit built-in and the process was
\* terminated
C9_Witness ==
    /\ driver = "repl"
    /\ nread = 2
    /\ pc = "terminated"
    /\ ended = "exit"
    /\ exitCode # <<>>

\* C10: once the REPL has read a line, every end of the session is preceded
\* by an attempt to save the history.
C10_HistorySavedBeforeEnd ==
    (driver = "repl" /\ nread > 0 /\ pc \in {"done", "terminated"}) => saves >= 1

====
